---- MODULE Spec2Model ----
(***************************************************************************)
(* State-machine model of the Cricbuzz LiveStats API layer (utils/api.py): *)
(* the credential gate (CricbuzzAPI.__init__), the lazily built module     *)
(* singleton (get_api_instance), the retrying fetch (_make_request), the   *)
(* endpoint functions built on it and the connectivity probe               *)
(* (verify_api_connection).                                                *)
(***************************************************************************)
EXTENDS Integers, Sequences, FiniteSets, TLC

\* ------------------------------------------------------------------ bounds
\* Number of concurrent calling contexts (Streamlit script threads).
NumThreads == 2

Threads == 1..NumThreads

\* ------------------------------------------------------- program constants
\* mutant: one attempt too many
MaxAttemptsMutant == 3 + 1

\* for attempt in range(3)
MaxAttempts == 3
\* "attempt < 2" guarding both sleeps
LastAttempt == 2
\* time.sleep(2 ** attempt)
BackoffBase == 2
\* time.sleep(1.0)
ErrorSleep == 1
\* resp.status_code == 200
StatusOK == 200
\* resp.status_code == 429
StatusRateLimited == 429

\* ------------------------------------------- Python / JSON values (tagged)
JNone == [type |-> "NoneType", val |-> 0]

JStr(s) == [type |-> "str", val |-> s]

JInt(n) == [type |-> "int", val |-> n]

JBool(b) == [type |-> "bool", val |-> b]

\* a float, held as its number of hundredths (2.5 is JFloat(250))
JFloat(h) == [type |-> "float", val |-> h]

JList(s) == [type |-> "list", val |-> s]

JDict(f) == [type |-> "dict", val |-> f]

\* the empty mapping {}
EmptyDict == JDict(<<>>)

\* a local that holds no value yet
Unset == [type |-> "unset", val |-> 0]

\* isinstance(v, dict)
IsDict(v) == v.type = "dict"

\* isinstance(v, list)
IsList(v) == v.type = "list"

\* Python truth value, bool(v)
Truthy(v) ==
  CASE v.type = "NoneType" -> FALSE
    [] v.type = "str" -> v.val # ""
    [] v.type = "int" -> v.val # 0
    [] v.type = "float" -> v.val # 0
    [] v.type = "bool" -> v.val
    [] v.type = "list" -> Len(v.val) > 0
    [] v.type = "dict" -> DOMAIN v.val # {}
    [] OTHER -> FALSE

\* d.get(k): the value under k, None when the key is absent
Get(d, k) == IF k \in DOMAIN d.val THEN d.val[k] ELSE JNone

\* Python's "a or b"
PyOr(a, b) == IF Truthy(a) THEN a ELSE b

\* d[k] = v on a copy of d
DictSet(d, k, v) ==
  JDict([x \in (DOMAIN d.val) \cup {k} |-> IF x = k THEN v ELSE d.val[x]])

\* ---------------------------------------------------------- credential gate
\* values os.getenv("RAPIDAPI_KEY") can return: unset, empty, a key
KeyValues == {JNone, JStr(""), JStr("k1")}

\* the values the concurrent specification sets the variable to
ThreadKeys == {JNone, JStr("k1")}

\* self.enabled = bool(self.api_key)
Enabled(key) == Truthy(key)

\* self.headers
Headers(key) ==
  IF Enabled(key)
    THEN [X_RapidAPI_Key |-> key.val, X_RapidAPI_Host |-> "cricbuzz-cricket.p.rapidapi.com"]
    ELSE <<>>

\* the object CricbuzzAPI() builds from the credential it reads
NewAdapter(key) ==
  [api_key |-> key, enabled |-> Enabled(key), headers |-> Headers(key)]

\* ------------------------------------------------ what one GET can bring
\* a 200 body that is not JSON: resp.json() raises requests' JSONDecodeError,
\* a RequestException (requests >= 2.27)
Malformed == [type |-> "malformed", val |-> 0]

\* parsed JSON bodies of HTTP 200 answers
Bodies ==
  { EmptyDict,
    JDict([typeMatches |-> JList(<<>>)]),
    JDict([error |-> JStr("x")]),
    JDict([error |-> JNone]),
    JDict([name |-> JStr("A"), role |-> JStr("Batsman")]),
    JDict([players |-> JList(<<JDict([fullName |-> JStr("A")])>>)]),
    JDict([players |-> JList(<<JStr("A")>>)]),
    JList(<<JInt(1)>>),
    JInt(5) }

\* statuses other than 200
FailStatuses == {404, StatusRateLimited, 500}

Response(status, body) == [kind |-> "response", status |-> status, body |-> body]

\* requests.get raised a requests.RequestException (connection error, timeout)
RequestException == [kind |-> "RequestException", status |-> 0, body |-> Unset]

\* an exception that is not a RequestException leaves requests.get
OtherException == [kind |-> "Exception", status |-> 0, body |-> Unset]

\* every outcome of one requests.get call
Outcomes ==
  {Response(StatusOK, b) : b \in Bodies \cup {Malformed}}
    \cup {Response(s, Unset) : s \in FailStatuses}
    \cup {RequestException, OtherException}

\* the outcomes the concurrent specification draws from
ThreadOutcomes == {Response(StatusOK, JDict([typeMatches |-> JList(<<>>)]))}

\* the outcomes two runs of a fetch are compared on: rate limited, network error
RunOutcomes == {Response(StatusRateLimited, Unset), RequestException}

\* ------------------------------------------------------------ trace events
EvGet(n) == [ev |-> "GET", n |-> n]

EvSleep(secs) == [ev |-> "sleep", n |-> secs]

\* logger.error
EvError(status) == [ev |-> "error", n |-> status]

\* logger.warning("Failed to get data ...")
EvFailed == [ev |-> "warning", n |-> 0]

\* logger.error("verify failed ...") of the probe's except clause
EvVerifyFailed == [ev |-> "verify failed", n |-> 0]

\* --------------------------------------------------- _make_request, one pass
\* mutant: linear instead of exponential backoff
BackoffMutant(attempt) == BackoffBase * attempt

\* time.sleep(2 ** attempt)
Backoff(attempt) == BackoffBase ^ attempt

\* mutant: the parsed body is returned whatever its type
WrapDataMutant(data) == data

\* return data if isinstance(data, dict) else {"data": data}
WrapData(data) == IF IsDict(data) THEN data ELSE JDict([data |-> data])

\* mutant: a 429 is handled like every other failing status
RetryRateLimitMutant(status, attempt) == FALSE

\* resp.status_code == 429 and attempt < 2
RetryRateLimit(status, attempt) == status = StatusRateLimited /\ attempt < LastAttempt

\* mutant: no except clause, the RequestException leaves _make_request
OnRequestExceptionMutant(attempt) == [ctl |-> "raise", events |-> <<>>, value |-> Unset]

\* mutant: the wait after a network error grows with the attempt
OnRequestExceptionSlowMutant(attempt) ==
  [ctl |-> "next",
   events |-> <<EvError(0)>> \o
              (IF attempt < LastAttempt THEN <<EvSleep(ErrorSleep + attempt)>> ELSE <<>>),
   value |-> Unset]

\* mutant: the wait follows the last attempt as well
OnRequestExceptionAlwaysMutant(attempt) ==
  [ctl |-> "next", events |-> <<EvError(0), EvSleep(ErrorSleep)>>, value |-> Unset]

\* except requests.RequestException: log, sleep 1 when attempts remain
OnRequestException(attempt) ==
  [ctl |-> "next",
   events |-> <<EvError(0)>> \o (IF attempt < LastAttempt THEN <<EvSleep(ErrorSleep)>> ELSE <<>>),
   value |-> Unset]

\* the body of the for loop on the outcome o of its requests.get:
\* ctl is "return" (value returned), "next" (the loop goes on) or "raise"
LoopBody(attempt, o) ==
  CASE o.kind = "Exception" -> [ctl |-> "raise", events |-> <<>>, value |-> Unset]
    [] o.kind = "RequestException" -> OnRequestException(attempt)
    [] o.kind = "response" /\ o.status = StatusOK ->
         IF o.body = Malformed
           THEN OnRequestException(attempt)
           ELSE [ctl |-> "return", events |-> <<>>, value |-> WrapData(o.body)]
    [] o.kind = "response" /\ o.status # StatusOK ->
         IF RetryRateLimit(o.status, attempt)
           THEN [ctl |-> "next", events |-> <<EvSleep(Backoff(attempt))>>, value |-> Unset]
           ELSE [ctl |-> "next", events |-> <<EvError(o.status)>>, value |-> Unset]

\* ------------------------------------------------------ endpoint functions
\* module-level functions that fetch and return the payload as it is
PlainFns ==
  {"get_live_matches", "get_upcoming_matches", "get_recent_matches",
   "get_match_scorecard", "get_player_stats", "get_trending_players",
   "get_top_performers", "get_player_career_stats", "search_players",
   "get_current_rankings"}

\* the endpoint catalog
EndpointFns == PlainFns \cup {"get_player_info", "get_team_players"}

\* everything a page can call
Fns == EndpointFns \cup {"verify_api_connection"}

\* the functions the concurrent specification calls
ThreadFns == {"get_live_matches"}

\* ids passed as player_id
PlayerIds == {1, 2}

\* the argument values tried for function f
ArgsOf(f) == IF f = "get_player_info" THEN PlayerIds ELSE {0}

Returned(v) == [raised |-> "", value |-> v]

Raised(exc) == [raised |-> exc, value |-> Unset]

\* get_player_info's return value
PlayerInfo(player_id, data) ==
  JDict([id |-> JInt(player_id),
         name |-> Get(data, "name"),
         role |-> Get(data, "role"),
         battingStyle |-> Get(data, "battingStyle"),
         bowlingStyle |-> Get(data, "bowlingStyle"),
         intlTeam |-> Get(data, "intlTeam"),
         raw |-> data])

\* one entry of get_team_players' normalized list
NormalizePlayer(p) ==
  JDict([id |-> Get(p, "id"),
         name |-> PyOr(PyOr(Get(p, "name"), Get(p, "fullName")), Get(p, "playerName")),
         country |-> PyOr(PyOr(Get(p, "country"), Get(p, "intlTeam")), JNone),
         role |-> Get(p, "role"),
         battingStyle |-> Get(p, "battingStyle"),
         bowlingStyle |-> Get(p, "bowlingStyle")])

\* get_team_players after the fetch: p.get on an entry that is no dict raises
TeamPlayers(data) ==
  LET players == Get(data, "players") IN
  IF ~IsList(players) THEN Returned(data)
  ELSE IF \E i \in DOMAIN players.val : ~IsDict(players.val[i])
    THEN Raised("AttributeError")
    ELSE Returned(DictSet(data, "players",
           JList([i \in DOMAIN players.val |-> NormalizePlayer(players.val[i])])))

\* mutant: the probe forgets to look at "error"
VerifyResultMutant(data) == Truthy(data)

\* return bool(data) and not data.get("error")
VerifyResult(data) == Truthy(data) /\ ~Truthy(Get(data, "error"))

\* what function f returns once _make_request has returned data
EndpointReturn(f, a, data) ==
  CASE f = "get_player_info" -> Returned(PlayerInfo(a, data))
    [] f = "get_team_players" -> TeamPlayers(data)
    [] f = "verify_api_connection" -> Returned(JBool(VerifyResult(data)))
    [] OTHER -> Returned(data)

\* mutant: the probe has no try/except
EndpointRaiseMutant(f, exc) == Raised(exc)

\* what function f does when _make_request raises: only the probe catches
EndpointRaise(f, exc) ==
  IF f = "verify_api_connection" THEN Returned(JBool(FALSE)) ELSE Raised(exc)

\* ------------------------------------------------- Python container protocol
\* "k in v" is defined for these (anything else raises TypeError)
CanIn(v) == v.type \in {"dict", "list", "str"}

\* "k in v" for a str k: key of a dict, element of a list, substring of a str
\* (the model's strings either are the key or do not contain it)
PyIn(k, v) ==
  CASE v.type = "dict" -> k \in DOMAIN v.val
    [] v.type = "list" -> \E i \in DOMAIN v.val : v.val[i] = JStr(k)
    [] v.type = "str" -> v.val = k
    [] OTHER -> FALSE

\* "for x in v" is defined for these (anything else raises TypeError)
CanIter(v) == v.type \in {"dict", "list", "str"}

RECURSIVE KeySeq(_)
\* the keys of a dict as a sequence
KeySeq(ks) ==
  IF ks = {} THEN <<>> ELSE LET k == CHOOSE x \in ks : TRUE IN <<JStr(k)>> \o KeySeq(ks \ {k})

\* what "for x in v" visits: the elements of a list, the keys of a dict, the
\* characters of a str (one-character strings, which contain no key)
Iter(v) ==
  CASE v.type = "list" -> v.val
    [] v.type = "dict" -> KeySeq(DOMAIN v.val)
    [] v.type = "str" -> IF v.val = "" THEN <<>> ELSE <<JStr("c")>>
    [] OTHER -> <<>>

\* d.get(k, default)
GetOr(d, k, default) == IF k \in DOMAIN d.val THEN d.val[k] ELSE default

\* ------------------------------------------- extract_matches_from_response
\* a part of the traversal: it raised, or it appended out
PartOk(out) == [err |-> FALSE, out |-> out]

PartErr == [err |-> TRUE, out |-> <<>>]

RECURSIVE Collect(_)
\* the parts of consecutive loop passes: an exception in any ends them all
Collect(parts) ==
  IF parts = <<>> THEN PartOk(<<>>)
  ELSE LET h == Head(parts)
           r == Collect(Tail(parts))
       IN IF h.err \/ r.err THEN PartErr ELSE PartOk(h.out \o r.out)

\* mutant: the match entry itself is appended, not its matchInfo
MatchPartMutant(match) ==
  IF ~CanIn(match) THEN PartErr
  ELSE IF ~PyIn("matchInfo", match) THEN PartOk(<<>>)
  ELSE IF ~IsDict(match) THEN PartErr
  ELSE PartOk(<<match>>)

\* the body of "for match in series_matches"
MatchPart(match) ==
  IF ~CanIn(match) THEN PartErr
  ELSE IF ~PyIn("matchInfo", match) THEN PartOk(<<>>)
  ELSE IF ~IsDict(match) THEN PartErr
  ELSE PartOk(<<match.val["matchInfo"]>>)

\* "for match in series_matches"
MatchesPart(series_matches) ==
  IF ~CanIter(series_matches) THEN PartErr
  ELSE LET it == Iter(series_matches) IN Collect([k \in DOMAIN it |-> MatchPart(it[k])])

\* mutant: series_match["seriesAdWrapper"] is read without the "in" test
SeriesPartMutant(series_match) ==
  IF ~IsDict(series_match) \/ ~PyIn("seriesAdWrapper", series_match) THEN PartErr
  ELSE LET w == series_match.val["seriesAdWrapper"] IN
       IF ~IsDict(w) THEN PartErr ELSE MatchesPart(GetOr(w, "matches", JList(<<>>)))

\* the body of "for series_match in type_match['seriesMatches']"
SeriesPart(series_match) ==
  IF ~CanIn(series_match) THEN PartErr
  ELSE IF ~PyIn("seriesAdWrapper", series_match) THEN PartOk(<<>>)
  ELSE IF ~IsDict(series_match) THEN PartErr
  ELSE LET w == series_match.val["seriesAdWrapper"] IN
       IF ~IsDict(w) THEN PartErr ELSE MatchesPart(GetOr(w, "matches", JList(<<>>)))

\* the body of "for type_match in data['typeMatches']"
TypePart(type_match) ==
  IF ~CanIn(type_match) THEN PartErr
  ELSE IF ~PyIn("seriesMatches", type_match) THEN PartOk(<<>>)
  ELSE IF ~IsDict(type_match) THEN PartErr
  ELSE LET sm == type_match.val["seriesMatches"] IN
       IF ~CanIter(sm) THEN PartErr
       ELSE LET it == Iter(sm) IN Collect([j \in DOMAIN it |-> SeriesPart(it[j])])

\* the try block of extract_matches_from_response
MatchesTry(data) ==
  IF ~CanIn(data) THEN PartErr
  ELSE IF ~PyIn("typeMatches", data) THEN PartOk(<<>>)
  ELSE IF ~IsDict(data) THEN PartErr
  ELSE LET tm == data.val["typeMatches"] IN
       IF ~CanIter(tm) THEN PartErr
       ELSE LET it == Iter(tm) IN Collect([i \in DOMAIN it |-> TypePart(it[i])])

\* a normalizer returns value, having logged log
Gives(value, log) == [value |-> value, log |-> log, raised |-> FALSE]

\* an exception leaves a normalizer
Escapes == [value |-> Unset, log |-> <<>>, raised |-> TRUE]

\* mutant: the handler catches KeyError only
MatchesExceptMutant == Escapes

\* except Exception as e: logger.error(...); return []
MatchesExcept == Gives(JList(<<>>), <<"error">>)

\* extract_matches_from_response(data): the list collected, [] after an exception
extract_matches_from_response(data) ==
  LET r == MatchesTry(data) IN
  IF r.err THEN MatchesExcept ELSE Gives(JList(r.out), <<>>)

\* -------------------------------------- extract_player_stats_from_trending
\* the values Python orders against 0
IsNum(v) == v.type \in {"int", "float", "bool"}

\* a number in hundredths
Hundredths(v) ==
  CASE v.type = "int" -> 100 * v.val
    [] v.type = "float" -> v.val
    [] v.type = "bool" -> IF v.val THEN 100 ELSE 0
    [] OTHER -> 0

\* "a > 0 and b > 0 and c == 0", left to right: ordering a value that is no
\* number against 0 raises TypeError, "== 0" never raises
Derivable(a, b, c) ==
  IF ~IsNum(a) THEN "raise"
  ELSE IF Hundredths(a) <= 0 THEN "false"
  ELSE IF ~IsNum(b) THEN "raise"
  ELSE IF Hundredths(b) <= 0 THEN "false"
  ELSE IF IsNum(c) /\ Hundredths(c) = 0 THEN "true" ELSE "false"

\* a / b for positive a and b, rounded to the nearest integer, a tie to the
\* even one
RoundDiv(a, b) ==
  LET q == a \div b
      r == a % b
  IN IF 2 * r < b THEN q
     ELSE IF 2 * r > b THEN q + 1
     ELSE IF q % 2 = 0 THEN q ELSE q + 1

\* mutant: the quotient is cut off, not rounded
StrikeRateOfMutant(runs, balls) ==
  JFloat((10000 * Hundredths(runs)) \div Hundredths(balls))

\* round((runs / balls_faced) * 100, 2)
StrikeRateOf(runs, balls) == JFloat(RoundDiv(10000 * Hundredths(runs), Hundredths(balls)))

\* mutant: overs_bowled / runs_conceded
EconomyRateOfMutant(runs_conceded, overs) ==
  JFloat(RoundDiv(100 * Hundredths(overs), Hundredths(runs_conceded)))

\* round(runs_conceded / overs_bowled, 2)
EconomyRateOf(runs_conceded, overs) ==
  JFloat(RoundDiv(100 * Hundredths(runs_conceded), Hundredths(overs)))

\* first.get(k, 0) or player_data.get(k, 0)
Stat(first, player_data, k) == PyOr(GetOr(first, k, JInt(0)), GetOr(player_data, k, JInt(0)))

\* the normalized player record, before the missing rates are calculated
PlayerRecord(player_data, batting_stats, bowling_stats) ==
  JDict([name |-> PyOr(PyOr(PyOr(Get(player_data, "name"), Get(player_data, "playerName")),
                            Get(player_data, "fullName")), JStr("Unknown")),
         team |-> GetOr(player_data, "team", JStr("Unknown")),
         country |-> PyOr(Get(player_data, "country"),
                          GetOr(player_data, "team", JStr("Unknown"))),
         role |-> GetOr(player_data, "role", JStr("Unknown")),
         runs |-> Stat(batting_stats, player_data, "runs"),
         balls_faced |-> Stat(batting_stats, player_data, "balls"),
         fours |-> Stat(batting_stats, player_data, "fours"),
         sixes |-> Stat(batting_stats, player_data, "sixes"),
         strike_rate |-> Stat(batting_stats, player_data, "strikeRate"),
         highest_score |-> Stat(batting_stats, player_data, "highestScore"),
         wickets |-> Stat(bowling_stats, player_data, "wickets"),
         overs_bowled |-> Stat(bowling_stats, player_data, "overs"),
         runs_conceded |-> Stat(bowling_stats, player_data, "runsConceded"),
         economy_rate |-> Stat(bowling_stats, player_data, "economyRate"),
         best_figures |-> PyOr(GetOr(bowling_stats, "bestFigures", JStr("N/A")),
                               GetOr(player_data, "bestFigures", JStr("N/A"))),
         matches |-> GetOr(player_data, "matches", JInt(1)),
         average |-> GetOr(player_data, "average", JInt(0)),
         format |-> GetOr(player_data, "format", JStr("Unknown")),
         recent_form |-> GetOr(player_data, "recentForm", JStr("Unknown")),
         trending_score |-> GetOr(player_data, "trendingScore", JInt(0)),
         rank |-> GetOr(player_data, "rank", JInt(0))])

\* mutant: the record is appended without its rank
CalculatedMutant(player) ==
  PartOk(<<JDict([x \in DOMAIN player.val \ {"rank"} |-> player.val[x]])>>)

\* "Calculate missing values" and players.append(player)
Calculated(player) ==
  LET p == player.val
      sr == Derivable(p["runs"], p["balls_faced"], p["strike_rate"])
      p1 == IF sr = "true"
              THEN DictSet(player, "strike_rate", StrikeRateOf(p["runs"], p["balls_faced"]))
              ELSE player
      er == Derivable(p["overs_bowled"], p["runs_conceded"], p["economy_rate"])
      p2 == IF er = "true"
              THEN DictSet(p1, "economy_rate", EconomyRateOf(p["runs_conceded"], p["overs_bowled"]))
              ELSE p1
  IN IF sr = "raise" \/ er = "raise" THEN PartErr ELSE PartOk(<<p2>>)

\* the body of "for player_data in raw_players"; .get on a value that is no
\* mapping raises AttributeError
PlayerPart(player_data) ==
  IF ~IsDict(player_data) THEN PartOk(<<>>)
  ELSE LET stats == GetOr(player_data, "stats", EmptyDict) IN
       IF Truthy(stats) /\ ~IsDict(stats) THEN PartErr
       ELSE LET src == IF Truthy(stats) THEN stats ELSE player_data
                batting_stats == GetOr(src, "batting", EmptyDict)
                bowling_stats == GetOr(src, "bowling", EmptyDict)
            IN IF ~IsDict(batting_stats) \/ ~IsDict(bowling_stats) THEN PartErr
               ELSE Calculated(PlayerRecord(player_data, batting_stats, bowling_stats))

\* except Exception as e: logger.error(...); st.error(...); return []
PlayersExcept == Gives(JList(<<>>), <<"error", "st.error">>)

\* len(v) is defined for these (anything else raises TypeError)
HasLen(v) == v.type \in {"dict", "list", "str"}

\* "Handle different possible response structures": the raw player list, or
\* the early return taken.  Of several list values under other keys the first
\* in the mapping's order is taken; the model's mappings keep no order, and its
\* inputs hold at most one such list.
RawPlayers(trending_data) ==
  IF IsList(trending_data) THEN [ctl |-> "ok", raw |-> trending_data]
  ELSE IF ~IsDict(trending_data) THEN [ctl |-> "st.error", raw |-> Unset]
  ELSE LET d == trending_data.val
           lists == {k \in DOMAIN d : IsList(d[k])}
       IN CASE "players" \in DOMAIN d -> [ctl |-> "ok", raw |-> d["players"]]
            [] "players" \notin DOMAIN d /\ "data" \in DOMAIN d ->
                 [ctl |-> "ok", raw |-> d["data"]]
            [] {"players", "data"} \cap DOMAIN d = {} /\ "trendingPlayers" \in DOMAIN d ->
                 [ctl |-> "ok", raw |-> d["trendingPlayers"]]
            [] OTHER ->
                 IF lists = {} THEN [ctl |-> "st.warning", raw |-> Unset]
                 ELSE [ctl |-> "ok", raw |-> d[CHOOSE k \in lists : TRUE]]

\* extract_player_stats_from_trending(trending_data): the records, [] after an
\* early return or an exception
extract_player_stats_from_trending(trending_data) ==
  LET r == RawPlayers(trending_data) IN
  IF r.ctl # "ok" THEN Gives(JList(<<>>), <<r.ctl>>)
  ELSE IF ~HasLen(r.raw) THEN PlayersExcept
  ELSE LET it == Iter(r.raw)
           c == Collect([n \in DOMAIN it |-> PlayerPart(it[n])])
       IN IF c.err THEN PlayersExcept ELSE Gives(JList(c.out), <<>>)

\* ----------------------------------------------- the live-matches payloads
\* at most this many series per match type and matches per series
MaxLen == 2

\* at most this many reruns of a page script on one payload
MaxCalls == 3

\* how many match types a payload lists
TypeLens == 0 .. 2

\* matches per series, for each series of one match type
CountSeqs == UNION {[1 .. n -> 0 .. MaxLen] : n \in 0 .. MaxLen}

\* the well-formed payloads: for each match type, its series' match counts
Shapes == UNION {[1 .. n -> CountSeqs] : n \in TypeLens}

\* every series of every type holds the same number of matches
Uniform(nT, nS, nM) == [i \in 1 .. nT |-> [j \in 1 .. nS |-> nM]]

UniformShapes == {Uniform(nT, nS, nM) : nT \in 1 .. 2, nS \in 1 .. MaxLen, nM \in 1 .. MaxLen}

\* the key absent from its mapping
NoKey == [type |-> "nokey", val |-> 0]

\* what stands where a sequence is expected
BadList == {JNone, JInt(7), JStr("x"), JDict([a |-> JInt(1)])}

\* what stands where a mapping is expected
BadDict == {JNone, JInt(7), JStr("x"), JList(<<>>)}

\* the places of a payload that can be defective, and how
SiteKinds ==
  [data |-> BadDict, typeMatches |-> BadList \cup {NoKey},
   typeEntry |-> BadDict, seriesMatches |-> BadList \cup {NoKey},
   seriesEntry |-> BadDict, seriesAdWrapper |-> BadDict \cup {NoKey},
   matches |-> BadList \cup {NoKey}, matchEntry |-> BadDict,
   matchInfo |-> {NoKey}]

\* how deep a site lies: how many of the indexes i, j, k locate it
SiteDepth ==
  [data |-> 0, typeMatches |-> 0, typeEntry |-> 1, seriesMatches |-> 1,
   seriesEntry |-> 2, seriesAdWrapper |-> 2, matches |-> 2, matchEntry |-> 3,
   matchInfo |-> 3]

\* a payload without defect
Sound(shape) == [shape |-> shape, site |-> "", i |-> 0, j |-> 0, k |-> 0, bad |-> Unset]

\* the defects one payload of the given shape can have, one at a time
DefectsOf(shape) ==
  {[shape |-> shape, site |-> s, i |-> i, j |-> j, k |-> k, bad |-> b] :
     <<s, i, j, k, b>> \in
       {x \in (DOMAIN SiteKinds) \X (0 .. 2) \X (0 .. MaxLen) \X (0 .. MaxLen)
                \X (BadList \cup BadDict \cup {NoKey}) :
          /\ x[5] \in SiteKinds[x[1]]
          /\ (x[2] = 0) = (SiteDepth[x[1]] < 1)
          /\ (x[3] = 0) = (SiteDepth[x[1]] < 2)
          /\ (x[4] = 0) = (SiteDepth[x[1]] < 3)
          /\ x[2] > 0 => x[2] \in DOMAIN shape
          /\ x[3] > 0 => x[3] \in DOMAIN shape[x[2]]
          /\ x[4] > 0 => x[4] \in 1 .. shape[x[2]][x[3]]}}

\* c's defect is at site s, located by the indexes ix
At(c, s, ix) == c.site = s /\ SubSeq(<<c.i, c.j, c.k>>, 1, Len(ix)) = ix

\* d without the key k
DictDel(d, k) == JDict([x \in DOMAIN d.val \ {k} |-> d.val[x]])

\* the value of key s, or the defect at that site: bad value, or key dropped
WithKey(c, s, ix, d, v) ==
  IF ~At(c, s, ix) THEN DictSet(d, s, v)
  ELSE IF c.bad = NoKey THEN DictDel(d, s) ELSE DictSet(d, s, c.bad)

\* the entry e, or the bad value standing in its place
Entry(c, s, ix, e) == IF At(c, s, ix) THEN c.bad ELSE e

\* the matchInfo of the k-th match of the j-th series of the i-th type
MatchId(i, j, k) == 100 * i + 10 * j + k

InfoOf(i, j, k) == JDict([matchId |-> JInt(MatchId(i, j, k)), state |-> JStr("Live")])

MatchEntry(c, i, j, k) ==
  Entry(c, "matchEntry", <<i, j, k>>,
        WithKey(c, "matchInfo", <<i, j, k>>, JDict([matchScore |-> EmptyDict]), InfoOf(i, j, k)))

Wrapper(c, i, j) ==
  WithKey(c, "matches", <<i, j>>, JDict([seriesId |-> JInt(10 * i + j)]),
          JList([k \in 1 .. c.shape[i][j] |-> MatchEntry(c, i, j, k)]))

SeriesEntry(c, i, j) ==
  Entry(c, "seriesEntry", <<i, j>>,
        WithKey(c, "seriesAdWrapper", <<i, j>>, EmptyDict, Wrapper(c, i, j)))

TypeEntry(c, i) ==
  Entry(c, "typeEntry", <<i>>,
        WithKey(c, "seriesMatches", <<i>>, JDict([matchType |-> JStr("T")]),
                JList([j \in DOMAIN c.shape[i] |-> SeriesEntry(c, i, j)])))

\* one match type, one series, one match: India v Australia
ScenarioInfo ==
  JDict([team1 |-> JDict([teamName |-> JStr("India")]),
         team2 |-> JDict([teamName |-> JStr("Australia")])])

ScenarioPayload ==
  JDict([typeMatches |-> JList(<<JDict([seriesMatches |-> JList(<<JDict([seriesAdWrapper |->
    JDict([matches |-> JList(<<JDict([matchInfo |-> ScenarioInfo])>>)])])>>)])>>)])

Scenario == [Sound(Uniform(1, 1, 1)) EXCEPT !.site = "scenario"]

\* the payload the case c describes
Payload(c) ==
  IF c = Scenario THEN ScenarioPayload
  ELSE Entry(c, "data", <<>>,
             WithKey(c, "typeMatches", <<>>, JDict([filters |-> EmptyDict]),
                     JList([i \in DOMAIN c.shape |-> TypeEntry(c, i)])))

\* the payloads a page is given
MatchCases ==
  {Sound(sh) : sh \in Shapes} \cup UNION {DefectsOf(sh) : sh \in UniformShapes}
    \cup {Scenario}

\* -------------------------------------------- the trending-players payloads
\* at most this many entries in a raw player list
MaxPlayers == 3

\* d with the key k set to v, or left out
Opt(d, k, v) == IF v = NoKey THEN d ELSE DictSet(d, k, v)

\* the values upstream gives for runs and for balls faced
RunsVals == {NoKey, JInt(0), JInt(1), JInt(7), JInt(50)}

BallsVals == {NoKey, JInt(0), JInt(3), JInt(25), JInt(32)}

\* ... for a strike rate
StrikeVals == {NoKey, JInt(0), JInt(120), JFloat(15050)}

\* ... for overs bowled, runs conceded and an economy rate
OversVals == {NoKey, JInt(0), JInt(10), JFloat(930)}

ConcededVals == {NoKey, JInt(0), JInt(30), JInt(47)}

EconomyVals == {NoKey, JInt(0), JFloat(450)}

\* where a player entry carries its figures: at the top level, under
\* stats.<kind>, under <kind>, or at the top level next to a <kind> of zeros
Places == {"top", "stats", "kind", "fallback"}

\* the three-figure entry of one player
Figures(keys, x, y, z) == Opt(Opt(Opt(EmptyDict, keys[1], x), keys[2], y), keys[3], z)

\* d and e in one mapping
Merge(d, e) ==
  JDict([k \in DOMAIN d.val \cup DOMAIN e.val |->
           IF k \in DOMAIN e.val THEN e.val[k] ELSE d.val[k]])

\* a player entry carrying the figures f at the given place
Placed(kind, place, zero, f) ==
  LET p == JDict([name |-> JStr("P")]) IN
  CASE place = "top" -> Merge(p, f)
    [] place = "stats" -> DictSet(p, "stats", DictSet(EmptyDict, kind, f))
    [] place = "kind" -> DictSet(p, kind, f)
    [] place = "fallback" -> DictSet(Merge(p, f), kind, DictSet(EmptyDict, zero, JInt(0)))

BattingKeys == <<"runs", "balls", "strikeRate">>

BowlingKeys == <<"overs", "runsConceded", "economyRate">>

\* the entries raw player lists are made of: two players, three values that
\* are no mapping, two mappings with a field of an unexpected type
PlayerA == JDict([name |-> JStr("A"), team |-> JStr("IND")])

PlayerB == JDict([playerName |-> JStr("B"), runs |-> JInt(50), balls |-> JInt(25)])

NullRuns == JDict([name |-> JStr("C"), runs |-> JNone])

TextStats == JDict([name |-> JStr("D"), stats |-> JStr("x")])

Entries == {PlayerA, PlayerB, JStr("x"), JNone, JInt(5), NullRuns, TextStats}

RawLists == UNION {[1 .. n -> Entries] : n \in 0 .. MaxPlayers}

ShortLists == UNION {[1 .. n -> Entries] : n \in 0 .. 2}

\* players that carry a role and a format, next to PlayerA, who has neither
PlayerE == JDict([name |-> JStr("E"), team |-> JStr("AUS"), role |-> JStr("Bowler"),
                  format |-> JStr("T20")])

PlayerF == JDict([name |-> JStr("F"), team |-> JStr("IND"), role |-> JStr("Batsman")])

RoleLists == UNION {[1 .. n -> {PlayerA, PlayerE, PlayerF}] : n \in 1 .. MaxPlayers}

\* the mappings a raw player list comes wrapped in
Wrapped(l) ==
  {JDict([players |-> JList(l)]),
   JDict([data |-> JList(l)]),
   JDict([trendingPlayers |-> JList(l)]),
   JDict([result |-> JList(l), status |-> JStr("ok")]),
   JDict([players |-> JList(l), data |-> JList(<<PlayerB>>)]),
   JDict([data |-> JList(l), trendingPlayers |-> JList(<<PlayerB>>)]),
   JDict([trendingPlayers |-> JList(l), result |-> JList(<<PlayerB>>)])}

\* payloads that hold no raw player list, and player profiles
Others ==
  {JNone, JInt(5), JStr("x"), EmptyDict, JDict([status |-> JStr("ok")]),
   JDict([players |-> JNone]), JDict([players |-> JInt(5)]),
   JDict([players |-> JStr("xy")]), JDict([players |-> PlayerA]),
   JDict([name |-> JStr("A"), role |-> JStr("Batsman")]),
   JDict([name |-> JStr("A"), role |-> JNone, battingStyle |-> JStr("Right"),
          bowlingStyle |-> JStr("Off"), intlTeam |-> JStr("IND")])}

\* a payload given as it is
Given(family, data) ==
  [family |-> family, x |-> Unset, y |-> Unset, z |-> Unset, place |-> "", data |-> data]

\* the payloads the page is given
PlayerCases ==
  {[family |-> "batting", x |-> x, y |-> y, z |-> z, place |-> pl, data |-> Unset] :
     x \in RunsVals, y \in BallsVals, z \in StrikeVals, pl \in Places}
  \cup
  {[family |-> "bowling", x |-> x, y |-> y, z |-> z, place |-> pl, data |-> Unset] :
     x \in OversVals, y \in ConcededVals, z \in EconomyVals, pl \in Places}
  \cup {Given("list", JList(l)) : l \in RawLists}
  \cup {Given("roles", JList(l)) : l \in RoleLists}
  \cup UNION {{Given("wrapped", w) : w \in Wrapped(l)} : l \in ShortLists}
  \cup {Given("other", o) : o \in Others}

\* the payload the case c describes
PlayerPayload(c) ==
  CASE c.family = "batting" ->
         JList(<<Placed("batting", c.place, "runs", Figures(BattingKeys, c.x, c.y, c.z))>>)
    [] c.family = "bowling" ->
         JList(<<Placed("bowling", c.place, "overs", Figures(BowlingKeys, c.x, c.y, c.z))>>)
    [] OTHER -> c.data

\* ------------------------------------------------------ the players database
\* at most this many players are stored
MaxRows == 2

\* a database URL: its scheme prefix and the rest
Url(prefix, rest) == [type |-> "url", val |-> [prefix |-> prefix, rest |-> rest]]

\* the settings of DATABASE_URL: unset, a SQLite file, a database server
DatabaseUrls == {JNone, Url("sqlite:///", "app.db"), Url("postgresql://", "host/app")}

\* os.getenv(name, default) on a variable holding v
Getenv(v, default) == IF v = JNone THEN default ELSE v

\* where a database lives: a SQLite file, or a server
File(name) == [kind |-> "file", name |-> name]

Server(name) == [kind |-> "server", name |-> name]

Locations ==
  {File("cricbuzz_livestats.db"), File("cricket.db"), File("app.db"), Server("host/app")}

\* the database create_engine(DATABASE_URL) binds SessionLocal to
EngineLocation(env) ==
  LET DATABASE_URL == Getenv(env, Url("sqlite:///", "cricbuzz_livestats.db")).val IN
  IF DATABASE_URL.prefix = "sqlite:///" THEN File(DATABASE_URL.rest)
  ELSE Server(DATABASE_URL.rest)

\* the file execute_sql_query hands to sqlite3.connect
AnalyticsLocation(env) ==
  LET database_url == Getenv(env, Url("sqlite:///", "cricket.db")).val IN
  IF database_url.prefix = "sqlite:///" THEN File(database_url.rest)
  ELSE File("cricket.db")

\* a database without a players table (sqlite3.connect creates the empty file)
NoTable == [type |-> "notable", val |-> 0]

\* a players table: its rows by id
Table(rows) == [type |-> "table", val |-> rows]

\* the role choices of both forms
ROLES == <<"Batsman", "Bowler", "All-rounder", "Wicket-keeper">>

\* what a user types into a text input
Texts == {" ", " A "}

\* str.strip()
Strip(s) == CASE s = " " -> "" [] s = " A " -> "A" [] OTHER -> s

\* (style or "").strip() or None
StyleOf(s) == IF Strip(s) = "" THEN JNone ELSE JStr(Strip(s))

\* the values of a Player's columns as the forms pass them on
PlayerOf(name, country, role, batting_style, bowling_style) ==
  [name |-> Strip(name), country |-> Strip(country), role |-> Strip(role),
   batting_style |-> StyleOf(batting_style), bowling_style |-> StyleOf(bowling_style)]

\* the largest of a non-empty set of ids
MaxOf(ids) == CHOOSE m \in ids : \A i \in ids : i <= m

\* the id SQLite gives the next row: one above the largest in use
NextId(rows) == IF DOMAIN rows = {} THEN 1 ELSE MaxOf(DOMAIN rows) + 1

\* rows with the row r stored under id
Put(rows, id, r) == [i \in DOMAIN rows \cup {id} |-> IF i = id THEN r ELSE rows[i]]

\* mutant: every DELETE statement executed is counted, whatever its rowcount
RECURSIVE DeleteLoopMutant(_, _, _)
DeleteLoopMutant(rows, ids, count) ==
  IF ids = <<>> THEN [rows |-> rows, count |-> count]
  ELSE DeleteLoopMutant([i \in DOMAIN rows \ {Head(ids)} |-> rows[i]], Tail(ids), count + 1)

RECURSIVE DeleteLoop(_, _, _)
\* "for pid in ids": DELETE FROM players WHERE id = :id, counting the
\* statements whose rowcount is positive
DeleteLoop(rows, ids, count) ==
  IF ids = <<>> THEN [rows |-> rows, count |-> count]
  ELSE LET pid == Head(ids)
           rowcount == IF pid \in DOMAIN rows THEN 1 ELSE 0
       IN DeleteLoop([i \in DOMAIN rows \ {pid} |-> rows[i]], Tail(ids),
                     IF rowcount > 0 THEN count + 1 ELSE count)

\* delete_players(db, ids): the count returned, the rows left, whether
\* db.commit() was called
delete_players(rows, ids) ==
  LET r == DeleteLoop(rows, ids, 0) IN
  [count |-> r.count, rows |-> r.rows, committed |-> r.count # 0]

\* ----------------------------------------------- one run of the CRUD page
\* what the user did to start the run: the button pressed and the widgets'
\* values; ok says whether the database statement of the run succeeds
Trigger(kind, name, country, role, batting_style, id, ids, ok) ==
  [kind |-> kind, name |-> name, country |-> country, role |-> role,
   batting_style |-> batting_style, bowling_style |-> "", id |-> id, ids |-> ids,
   ok |-> ok]

\* the page is opened or rerun without a button
NoButton == Trigger("visit", "", "", "", "", 0, <<>>, TRUE)

\* the role and the batting style chosen in the forms
RoleChoices == {ROLES[1]}
StyleChoices == {""}

\* the lists of ids handed to delete_players: the players ticked, some of them
\* possibly deleted by another session since they were listed
IdLists == UNION {[1 .. n -> 1 .. MaxRows] : n \in 1 .. MaxRows}

\* what a tab did: the rows it leaves, its session and message events, whether
\* st.rerun() ended the script there
Did(rows, events, rerun) == [rows |-> rows, events |-> events, rerun |-> rerun]

\* tab_create: the form's submit handler
TabCreate(rows, t) ==
  IF t.kind # "create" THEN Did(rows, <<>>, FALSE)
  ELSE IF Strip(t.name) = "" \/ Strip(t.country) = "" \/ Strip(t.role) = ""
    THEN Did(rows, <<"st.error">>, FALSE)
  ELSE IF t.ok
    THEN Did(Put(rows, NextId(rows),
                 PlayerOf(t.name, t.country, t.role, t.batting_style, t.bowling_style)),
             <<"open", "commit", "close">>, FALSE)
  ELSE Did(rows, <<"open", "st.error", "close">>, FALSE)

\* tab_list: db = get_db(), the listing, and the Save Changes handler, whose
\* finally clause is the only db.close() of this tab
TabList(rows, t) ==
  IF DOMAIN rows = {} \/ t.kind # "save" THEN Did(rows, <<"open">>, FALSE)
  ELSE IF t.ok
    THEN Did(Put(rows, t.id,
                 PlayerOf(t.name, t.country, t.role, t.batting_style, t.bowling_style)),
             <<"open", "commit", "close">>, TRUE)
  ELSE Did(rows, <<"open", "st.error", "close">>, FALSE)

\* tab_delete: db = get_db(), the listing, the Confirm Delete handler, and
\* db.close() as the script's last statement, which st.rerun() skips
TabDelete(rows, t) ==
  IF DOMAIN rows = {} \/ t.kind # "delete" \/ t.ids = <<>>
    THEN Did(rows, <<"open", "close">>, FALSE)
  ELSE IF t.ok
    THEN LET r == delete_players(rows, t.ids) IN
         Did(r.rows, <<"open">> \o (IF r.committed THEN <<"commit">> ELSE <<>>), TRUE)
  ELSE Did(rows, <<"open", "st.error", "close">>, FALSE)

\* the script from top to bottom, ended early by st.rerun()
Script(rows, t) ==
  LET c == TabCreate(rows, t)
      l == TabList(c.rows, t)
      d == IF l.rerun THEN Did(l.rows, <<>>, TRUE) ELSE TabDelete(l.rows, t)
  IN [rows |-> d.rows, events |-> c.events \o l.events \o d.events]

\* execute_sql_query("SELECT * FROM players") on the database at location l
execute_sql_query(store) ==
  IF store = NoTable THEN [df |-> Unset, error |-> "no such table: players"]
  ELSE [df |-> store, error |-> ""]

\* ------------------------------------------------------------------- state
VARIABLES
  environ,       \* os.environ["RAPIDAPI_KEY"] as os.getenv returns it
  instances,     \* the CricbuzzAPI objects built so far, in order
  api_instance,  \* the module global _api_instance: 0 is None, else an index
  getenv_calls,  \* how often os.getenv("RAPIDAPI_KEY") was read
  key_warnings,  \* how often "RAPIDAPI_KEY not set" was logged
  pc,            \* per context: where it is in its call
  fn,            \* per context: the function it called
  arg,           \* per context: the id it passed
  self,          \* per context: the object its CricbuzzAPI() built (0: none)
  api,           \* per context: the local "api" (0: not yet bound)
  attempt,       \* per context: the loop variable of _make_request
  outcomes,      \* per context: what each requests.get of the call brought
  trace,         \* per context: GETs, sleeps and logs of the call, in order
  resp,          \* per context: what _make_request returned
  ret            \* per context: how the called function ended

VARIABLES
  page_case,     \* how the payload a page holds was built
  page_in,       \* the payload a page passes to its normalizer
  page_fn,       \* the normalizer the page applied ("": none yet)
  page_out,      \* what the normalizer returned and logged
  page_calls,    \* how often the page has called the normalizer
  page_view,     \* the sidebar choices and the players the page shows
  database_url,  \* os.environ["DATABASE_URL"] as os.getenv returns it
  stores,        \* the players table of each database
  run            \* what the last run of a database page did

vars ==
  <<environ, instances, api_instance, getenv_calls, key_warnings, pc, fn, arg,
    self, api, attempt, outcomes, trace, resp, ret,
    page_case, page_in, page_fn, page_out, page_calls, page_view,
    database_url, stores, run>>

\* the state of the adapter and its callers
adapter ==
  <<environ, instances, api_instance, getenv_calls, key_warnings, pc, fn, arg,
    self, api, attempt, outcomes, trace, resp, ret>>

\* the state of the database pages
db == <<database_url, stores, run>>

\* the state of the pages
page == <<page_case, page_in, page_fn, page_out, page_calls, page_view, db>>

globals == <<environ, instances, api_instance, getenv_calls, key_warnings>>

\* no call made yet
NoReturn == Raised("")

\* no adapter built, no call made
Idle ==
  /\ instances = <<>>
  /\ api_instance = 0
  /\ getenv_calls = 0
  /\ key_warnings = 0
  /\ pc = [t \in Threads |-> "idle"]
  /\ fn = [t \in Threads |-> ""]
  /\ arg = [t \in Threads |-> 0]
  /\ self = [t \in Threads |-> 0]
  /\ api = [t \in Threads |-> 0]
  /\ attempt = [t \in Threads |-> 0]
  /\ outcomes = [t \in Threads |-> <<>>]
  /\ trace = [t \in Threads |-> <<>>]
  /\ resp = [t \in Threads |-> Unset]
  /\ ret = [t \in Threads |-> NoReturn]

\* no page has fetched a payload
NoPage ==
  /\ page_case = Unset
  /\ page_in = Unset
  /\ page_fn = ""
  /\ page_out = Unset
  /\ page_calls = 0
  /\ page_view = Unset

\* no database page has run; the players table exists where the CRUD page
\* looks for it and is empty
NoRun ==
  /\ stores = [l \in Locations |->
                IF l = EngineLocation(database_url) THEN Table(<<>>) ELSE NoTable]
  /\ run = Unset

Init ==
  /\ environ \in KeyValues
  /\ Idle
  /\ NoPage
  /\ database_url = JNone
  /\ NoRun

\* the environment variable is changed from outside the adapter
SetEnv(v) ==
  /\ v # environ
  /\ environ' = v
  /\ UNCHANGED <<instances, api_instance, getenv_calls, key_warnings, pc, fn, arg,
                 self, api, attempt, outcomes, trace, resp, ret>>
  /\ UNCHANGED page

\* context t calls f(a); its first statement is api = get_api_instance(),
\* which tests "_api_instance is None"
Call(t, f, a) ==
  /\ pc[t] \in {"idle", "done"}
  /\ fn' = [fn EXCEPT ![t] = f]
  /\ arg' = [arg EXCEPT ![t] = a]
  /\ self' = [self EXCEPT ![t] = 0]
  /\ api' = [api EXCEPT ![t] = 0]
  /\ attempt' = [attempt EXCEPT ![t] = 0]
  /\ outcomes' = [outcomes EXCEPT ![t] = <<>>]
  /\ trace' = [trace EXCEPT ![t] = <<>>]
  /\ resp' = [resp EXCEPT ![t] = Unset]
  /\ ret' = [ret EXCEPT ![t] = NoReturn]
  /\ pc' = [pc EXCEPT ![t] = IF api_instance = 0 THEN "construct" ELSE "return_instance"]
  /\ UNCHANGED globals
  /\ UNCHANGED page

\* CricbuzzAPI(): __init__ reads the credential and sets enabled and headers
Construct(t) ==
  /\ pc[t] = "construct"
  /\ instances' = Append(instances, NewAdapter(environ))
  /\ self' = [self EXCEPT ![t] = Len(instances) + 1]
  /\ getenv_calls' = getenv_calls + 1
  /\ key_warnings' = key_warnings + (IF Enabled(environ) THEN 0 ELSE 1)
  /\ pc' = [pc EXCEPT ![t] = "assign"]
  /\ UNCHANGED <<environ, api_instance, fn, arg, api, attempt, outcomes, trace, resp, ret>>
  /\ UNCHANGED page

\* _api_instance = <the object just built>
Assign(t) ==
  /\ pc[t] = "assign"
  /\ api_instance' = self[t]
  /\ pc' = [pc EXCEPT ![t] = "return_instance"]
  /\ UNCHANGED <<environ, instances, getenv_calls, key_warnings, fn, arg, self, api,
                 attempt, outcomes, trace, resp, ret>>
  /\ UNCHANGED page

\* return _api_instance, bound to the caller's local api
ReturnInstance(t) ==
  /\ pc[t] = "return_instance"
  /\ api' = [api EXCEPT ![t] = api_instance]
  /\ pc' = [pc EXCEPT ![t] = "gate"]
  /\ UNCHANGED <<globals, fn, arg, self, attempt, outcomes, trace, resp, ret>>
  /\ UNCHANGED page

\* _make_request returns data and the called function finishes on it
Finish(t, data, events) ==
  /\ resp' = [resp EXCEPT ![t] = data]
  /\ ret' = [ret EXCEPT ![t] = EndpointReturn(fn[t], arg[t], data)]
  /\ trace' = [trace EXCEPT ![t] = @ \o events]
  /\ pc' = [pc EXCEPT ![t] = "done"]

\* mutant: _make_request does not test self.enabled
GateMutant(t) ==
  /\ pc[t] = "gate"
  /\ pc' = [pc EXCEPT ![t] = "attempt"]
  /\ UNCHANGED <<globals, fn, arg, self, api, attempt, outcomes, trace, resp, ret>>
  /\ UNCHANGED page

\* _make_request's gate: "if not self.enabled: return {}"
Gate(t) ==
  /\ pc[t] = "gate"
  /\ IF instances[api[t]].enabled
       THEN /\ pc' = [pc EXCEPT ![t] = "attempt"]
            /\ UNCHANGED <<trace, resp, ret>>
       ELSE Finish(t, EmptyDict, <<>>)
  /\ UNCHANGED <<globals, fn, arg, self, api, attempt, outcomes>>
  /\ UNCHANGED page

\* one pass of the for loop: requests.get brings o
Attempt(t, o) ==
  /\ pc[t] = "attempt"
  /\ outcomes' = [outcomes EXCEPT ![t] = Append(@, o)]
  /\ LET r == LoopBody(attempt[t], o)
         evs == <<EvGet(attempt[t])>> \o r.events
     IN CASE r.ctl = "return" ->
               /\ Finish(t, r.value, evs)
               /\ UNCHANGED attempt
          [] r.ctl = "raise" ->
               /\ ret' = [ret EXCEPT ![t] = EndpointRaise(fn[t], "Exception")]
               /\ trace' = [trace EXCEPT ![t] = @ \o evs \o
                             (IF fn[t] = "verify_api_connection" THEN <<EvVerifyFailed>> ELSE <<>>)]
               /\ pc' = [pc EXCEPT ![t] = "done"]
               /\ UNCHANGED <<attempt, resp>>
          [] r.ctl = "next" /\ attempt[t] + 1 < MaxAttempts ->
               /\ attempt' = [attempt EXCEPT ![t] = @ + 1]
               /\ trace' = [trace EXCEPT ![t] = @ \o evs]
               /\ UNCHANGED <<pc, resp, ret>>
          [] r.ctl = "next" /\ attempt[t] + 1 >= MaxAttempts ->
               /\ attempt' = [attempt EXCEPT ![t] = @ + 1]
               /\ Finish(t, EmptyDict, evs \o <<EvFailed>>)
  /\ UNCHANGED <<globals, fn, arg, self, api>>
  /\ UNCHANGED page

\* the steps of the contexts T calling functions F with GET outcomes O,
\* the environment variable taking the values K
NextOf(T, F, O, K) ==
  \/ \E v \in K : SetEnv(v)
  \/ \E t \in T, f \in F : \E a \in ArgsOf(f) : Call(t, f, a)
  \/ \E t \in T : Construct(t)
  \/ \E t \in T : Assign(t)
  \/ \E t \in T : ReturnInstance(t)
  \/ \E t \in T : Gate(t)
  \/ \E t \in T, o \in O : Attempt(t, o)

\* one calling context, every function, every outcome
Next == NextOf({1}, Fns, Outcomes, KeyValues)

Spec == Init /\ [][Next]_vars

\* concurrent calling contexts
NextThreads == NextOf(Threads, ThreadFns, ThreadOutcomes, ThreadKeys)

SpecThreads == Init /\ [][NextThreads]_vars

\* the two runs of a fetch that are compared with each other
Runs == {1, 2}

\* two runs of one fetch side by side, each GET rate limited or failing
NextRuns == NextOf(Runs, ThreadFns, RunOutcomes, ThreadKeys)

SpecRuns == Init /\ [][NextRuns]_vars

\* ------------------------------------------------------ the Live Matches page
InitMatches ==
  /\ environ = JNone
  /\ Idle
  /\ page_case \in MatchCases
  /\ page_in = Payload(page_case)
  /\ page_fn = ""
  /\ page_out = Unset
  /\ page_calls = 0
  /\ page_view = Unset
  /\ database_url = JNone
  /\ NoRun

\* mutant: the list "matches" outlives the call and is appended to again
ExtractMatchesMutant ==
  /\ page_fn \in {"", "extract_matches_from_response"}
  /\ page_calls < MaxCalls
  /\ page_fn' = "extract_matches_from_response"
  /\ page_calls' = page_calls + 1
  /\ page_out' = LET r == extract_matches_from_response(page_in) IN
                 IF page_calls = 0 THEN r
                 ELSE [r EXCEPT !.value = JList(page_out.value.val \o r.value.val)]
  /\ UNCHANGED <<page_case, page_in, page_view, db, adapter>>

\* matches = extract_matches_from_response(data), on every rerun of the page
\* script; the function only reads data
ExtractMatches ==
  /\ page_fn \in {"", "extract_matches_from_response"}
  /\ page_calls < MaxCalls
  /\ page_fn' = "extract_matches_from_response"
  /\ page_calls' = page_calls + 1
  /\ page_out' = extract_matches_from_response(page_in)
  /\ UNCHANGED <<page_case, page_in, page_view, db, adapter>>

NextMatches == ExtractMatches

SpecMatches == InitMatches /\ [][NextMatches]_vars

\* ------------------------------------------------- the Top Player Stats page
InitPlayers ==
  /\ environ = JNone
  /\ Idle
  /\ page_case \in PlayerCases
  /\ page_in = PlayerPayload(page_case)
  /\ page_fn = ""
  /\ page_out = Unset
  /\ page_calls = 0
  /\ page_view = Unset
  /\ database_url = JNone
  /\ NoRun

\* the page applies the normalizer f to its payload and holds the result
Apply(f, result) ==
  /\ page_fn = ""
  /\ page_fn' = f
  /\ page_calls' = 1
  /\ page_out' = result
  /\ UNCHANGED <<page_case, page_in, page_view, db, adapter>>

\* st.session_state['players_data'] = extract_player_stats_from_trending(trending_data)
ExtractPlayers ==
  Apply("extract_player_stats_from_trending", extract_player_stats_from_trending(page_in))

\* get_player_info(player_id) on the mapping the fetch returned
ProfileOf(player_id) ==
  /\ IsDict(page_in)
  /\ Apply("get_player_info", Gives(PlayerInfo(player_id, page_in), <<>>))

\* the values of the field k over the records, 'Unknown' left out
Offered(players_data, k) ==
  {players_data[i].val[k] : i \in DOMAIN players_data} \ {JStr("Unknown")}

\* the sidebar filters and filtered_data: every multiselect offers what the
\* records hold (the order of the options plays no part) and starts with all
\* of it selected
ShowPlayers ==
  /\ page_fn = "extract_player_stats_from_trending"
  /\ Truthy(page_out.value)
  /\ LET players_data == page_out.value.val
         countries == {players_data[i].val["country"] : i \in DOMAIN players_data}
         roles == Offered(players_data, "role")
         formats == Offered(players_data, "format")
     IN \E selected_countries \in SUBSET countries, selected_roles \in SUBSET roles,
           selected_formats \in SUBSET formats :
          LET Keep(p) == /\ p.val["country"] \in selected_countries
                         /\ p.val["role"] \in selected_roles
                         /\ selected_formats = {} \/ p.val["format"] \in selected_formats
          IN page_view' = [countries |-> countries, roles |-> roles, formats |-> formats,
                           selected_countries |-> selected_countries,
                           selected_roles |-> selected_roles,
                           selected_formats |-> selected_formats,
                           filtered_data |-> SelectSeq(players_data, Keep)]
  /\ UNCHANGED <<page_case, page_in, page_fn, page_out, page_calls, db, adapter>>

NextPlayers ==
  \/ ExtractPlayers
  \/ \E id \in PlayerIds : ProfileOf(id)
  \/ ShowPlayers

SpecPlayers == InitPlayers /\ [][NextPlayers]_vars

\* ------------------------------------------------- both pages, any payload
InitPages ==
  /\ environ = JNone
  /\ Idle
  /\ \/ page_case \in MatchCases /\ page_in = Payload(page_case)
     \/ page_case \in PlayerCases /\ page_in = PlayerPayload(page_case)
  /\ page_fn = ""
  /\ page_out = Unset
  /\ page_calls = 0
  /\ page_view = Unset
  /\ database_url = JNone
  /\ NoRun

NextPages == ExtractMatches \/ ExtractPlayers

SpecPages == InitPages /\ [][NextPages]_vars

\* ------------------------------------------------------ the database pages
InitCrud ==
  /\ environ = JNone
  /\ Idle
  /\ NoPage
  /\ database_url \in DatabaseUrls
  /\ NoRun

\* the rows of the table the CRUD page works on
Players == stores[EngineLocation(database_url)].val

\* one run of the CRUD page script on the trigger t
RunCrud(t) ==
  LET r == Script(Players, t) IN
  /\ stores' = [stores EXCEPT ![EngineLocation(database_url)] = Table(r.rows)]
  /\ run' = [kind |-> t.kind, ids |-> {t.ids[i] : i \in DOMAIN t.ids}, n |-> Len(t.ids),
             events |-> r.events,
             count |-> IF t.kind = "delete" /\ t.ok
                         THEN delete_players(Players, t.ids).count ELSE 0,
             result |-> Unset]
  /\ UNCHANGED <<database_url, adapter, page_case, page_in, page_fn, page_out,
                 page_calls, page_view>>

\* the CRUD page is opened, or rerun by a widget that is no button
Visit == RunCrud(NoButton)

\* "Create Player" is pressed
Create ==
  \E name \in Texts, country \in Texts, role \in RoleChoices,
     batting_style \in StyleChoices, ok \in BOOLEAN :
    /\ Cardinality(DOMAIN Players) < MaxRows
    /\ NextId(Players) <= MaxRows
    /\ RunCrud(Trigger("create", name, country, role, batting_style, 0, <<>>, ok))

\* "Save Changes" is pressed on the player selected for editing
Save ==
  \E id \in DOMAIN Players, name \in Texts, country \in Texts, role \in RoleChoices,
     batting_style \in StyleChoices, ok \in BOOLEAN :
    RunCrud(Trigger("save", name, country, role, batting_style, id, <<>>, ok))

\* "Confirm Delete" is pressed
ConfirmDelete ==
  \E ids \in IdLists, ok \in BOOLEAN :
    /\ DOMAIN Players # {}
    /\ RunCrud(Trigger("delete", "", "", "", "", 0, ids, ok))

\* the SQL Analytics page runs a query over the players table
Query ==
  /\ run' = [kind |-> "query", ids |-> {}, n |-> 0, events |-> <<>>, count |-> 0,
             result |-> execute_sql_query(stores[AnalyticsLocation(database_url)])]
  /\ UNCHANGED <<database_url, stores, adapter, page_case, page_in, page_fn, page_out,
                 page_calls, page_view>>

NextCrud == Visit \/ Create \/ Save \/ ConfirmDelete \/ Query

SpecCrud == InitCrud /\ [][NextCrud]_vars

\* ==================================================================== claims
\* helpers of the claims' formulas
IsGet(e) == e.ev = "GET"

IsGetOrSleep(e) == e.ev \in {"GET", "sleep"}

\* the GETs of context t's call
Gets(t) == SelectSeq(trace[t], IsGet)

\* the GETs and sleeps of context t's call, in order
NetTrace(t) == SelectSeq(trace[t], IsGetOrSleep)

\* outcome o is an HTTP 200 answer whose body parsed
Usable(o) == o.kind = "response" /\ o.status = StatusOK /\ o.body # Malformed

\* outcome o is an upstream failure: a non-200 status, a network error or
\* timeout, or a 200 answer whose body is not JSON
UpstreamFailure(o) ==
  \/ o.kind = "RequestException"
  \/ o.kind = "response" /\ ~Usable(o)

\* context t's call went through a disabled gate
GateDisabled(t) == pc[t] = "done" /\ api[t] # 0 /\ ~instances[api[t]].enabled

R429 == Response(StatusRateLimited, Unset)

\* C1: fetch never raises for an upstream failure: a call whose GETs brought
\* only statuses, network errors, timeouts or malformed bodies (or no GET at
\* all) returns a mapping, and it returns {} when no GET brought a usable 200.
C1_FetchNeverRaises ==
  \A t \in Threads :
    (pc[t] = "done" /\ \A i \in DOMAIN outcomes[t] : outcomes[t][i].kind # "Exception")
      => /\ resp[t] # Unset
         /\ IsDict(resp[t])
         /\ (\A i \in DOMAIN outcomes[t] : UpstreamFailure(outcomes[t][i]))
              => resp[t] = EmptyDict

\* a call that met a 500, a network error and a malformed 200 body ended with {}
C1_Witness ==
  \E t \in Threads :
    /\ pc[t] = "done"
    /\ outcomes[t] = <<Response(500, Unset), RequestException, Response(StatusOK, Malformed)>>
    /\ resp[t] = EmptyDict

\* C2 as stated: with the gate disabled every endpoint function of the catalog
\* returns {} and attempts no network call.
C2_DisabledReturnsEmpty ==
  \A t \in Threads :
    (GateDisabled(t) /\ fn[t] \in EndpointFns)
      => /\ ret[t] = Returned(EmptyDict)
         /\ Gets(t) = <<>>
         /\ outcomes[t] = <<>>

\* C2 amended: with the gate disabled no endpoint function attempts a network
\* call, and each returns {} except get_player_info, which returns its profile
\* with the id passed, every profile field None and raw = {}.
C2_DisabledNoNetwork ==
  \A t \in Threads :
    (GateDisabled(t) /\ fn[t] \in EndpointFns)
      => /\ Gets(t) = <<>>
         /\ outcomes[t] = <<>>
         /\ resp[t] = EmptyDict
         /\ fn[t] # "get_player_info" => ret[t] = Returned(EmptyDict)
         /\ fn[t] = "get_player_info" =>
              ret[t] = Returned(JDict([id |-> JInt(arg[t]), name |-> JNone, role |-> JNone,
                                       battingStyle |-> JNone, bowlingStyle |-> JNone,
                                       intlTeam |-> JNone, raw |-> EmptyDict]))

\* get_player_info was called through a disabled gate
C2_Witness ==
  \E t \in Threads : GateDisabled(t) /\ fn[t] = "get_player_info" /\ arg[t] = 2

\* C3: three consecutive 429 answers: exactly 3 GETs, a sleep of 1 between the
\* first and second, of 2 between the second and third, none after the third,
\* and the call returns {}.
C3_RateLimitedThrice ==
  \A t \in Threads :
    (Len(outcomes[t]) >= MaxAttempts /\ SubSeq(outcomes[t], 1, 3) = <<R429, R429, R429>>)
      => /\ pc[t] = "done"
         /\ Len(outcomes[t]) = 3
         /\ NetTrace(t) = <<EvGet(0), EvSleep(1), EvGet(1), EvSleep(2), EvGet(2)>>
         /\ resp[t] = EmptyDict

\* a call that was answered 429 three times has ended
C3_Witness ==
  \E t \in Threads : pc[t] = "done" /\ outcomes[t] = <<R429, R429, R429>>

\* C4 as stated: a non-200 status other than 429 is followed by no further GET
\* of that call, which ends with {}.
C4_NoRetryAfterFailStatus ==
  \A t \in Threads : \A i \in DOMAIN outcomes[t] :
    (outcomes[t][i].kind = "response" /\ outcomes[t][i].status \notin {StatusOK, StatusRateLimited})
      => /\ Len(outcomes[t]) = i
         /\ pc[t] = "done" => resp[t] = EmptyDict

\* C5: whatever the GETs bring, one call makes at most 3 of them and has ended
\* once it made 3; when all 3 were unsuccessful it returned {}.
C5_AtMostThreeAttempts ==
  \A t \in Threads :
    /\ Len(outcomes[t]) <= 3
    /\ Len(Gets(t)) = Len(outcomes[t])
    /\ Len(outcomes[t]) = 3 => pc[t] = "done"
    /\ (Len(outcomes[t]) = 3 /\ \A i \in 1..3 : UpstreamFailure(outcomes[t][i]))
         => resp[t] = EmptyDict

\* a call used all three attempts on a mix of failures
C5_Witness ==
  \E t \in Threads :
    /\ pc[t] = "done"
    /\ outcomes[t] = <<Response(500, Unset), RequestException, R429>>
    /\ resp[t] = EmptyDict

\* C6: the first 200 answer whose body parses ends the call with a mapping:
\* a mapping body is returned unchanged, a sequence body as {"data": body}.
C6_OkReturnsMapping ==
  \A t \in Threads : \A i \in DOMAIN outcomes[t] :
    Usable(outcomes[t][i])
      => LET b == outcomes[t][i].body IN
         /\ i = Len(outcomes[t])
         /\ pc[t] = "done"
         /\ IsDict(resp[t])
         /\ IsDict(b) => resp[t] = b
         /\ IsList(b) => resp[t] = JDict([data |-> b])

\* a JSON array came back and was wrapped
C6_Witness ==
  \E t \in Threads :
    /\ pc[t] = "done"
    /\ outcomes[t] = <<Response(StatusOK, JList(<<JInt(1)>>))>>
    /\ resp[t] = JDict([data |-> JList(<<JInt(1)>>)])

\* C7 as stated: once the adapter is constructed, no step of any call reads the
\* credential again or changes the gate (enabled flag, headers) in force.
C7_GateDecidedOnce ==
  [][api_instance # 0 =>
       /\ getenv_calls' = getenv_calls
       /\ api_instance' # 0
       /\ instances'[api_instance'].enabled = instances[api_instance].enabled
       /\ instances'[api_instance'].headers = instances[api_instance].headers]_vars

\* C8 as stated: for any interleaving the adapter is constructed once: one
\* read of the credential, at most one missing-credential warning, and every
\* caller holds the same instance.
C8_ConstructedOnce ==
  /\ Len(instances) <= 1
  /\ getenv_calls <= 1
  /\ key_warnings <= 1
  /\ \A t1, t2 \in Threads : (api[t1] # 0 /\ api[t2] # 0) => api[t1] = api[t2]

\* C9 as stated: the probe returns true iff the live-matches result is
\* non-empty and has no "error" key, whatever is stored under it.
C9_VerifyIffNoErrorKey ==
  \A t \in Threads :
    (pc[t] = "done" /\ fn[t] = "verify_api_connection" /\ resp[t] # Unset)
      => (ret[t].value = JBool(TRUE)
            <=> (resp[t] # EmptyDict /\ "error" \notin DOMAIN resp[t].val))

\* C9 amended: the probe returns true iff the live-matches result is non-empty
\* and its "error" entry is absent or falsy (None, "", 0, false, empty).
C9_VerifyIffNoTruthyError ==
  \A t \in Threads :
    (pc[t] = "done" /\ fn[t] = "verify_api_connection" /\ resp[t] # Unset)
      => /\ ret[t].raised = ""
         /\ ret[t].value \in {JBool(TRUE), JBool(FALSE)}
         /\ ret[t].value = JBool(TRUE)
              <=> /\ resp[t] # EmptyDict
                  /\ \/ "error" \notin DOMAIN resp[t].val
                     \/ resp[t].val["error"] \in {JNone, JStr(""), JInt(0), JBool(FALSE),
                                                  JList(<<>>), EmptyDict}

\* the probe saw {"error": None} and reported true
C9_Witness ==
  \E t \in Threads :
    /\ pc[t] = "done"
    /\ fn[t] = "verify_api_connection"
    /\ resp[t] = JDict([error |-> JNone])
    /\ ret[t] = Returned(JBool(TRUE))

\* C10: the probe never raises: it returns false when the underlying call
\* raises, when it returns {"error": "x"} and when it returns {} (gate
\* disabled, or every attempt failed).
C10_VerifyNeverRaises ==
  \A t \in Threads :
    (pc[t] = "done" /\ fn[t] = "verify_api_connection")
      => /\ ret[t].raised = ""
         /\ ret[t].value \in {JBool(TRUE), JBool(FALSE)}
         /\ resp[t] = Unset => ret[t].value = JBool(FALSE)
         /\ resp[t] = JDict([error |-> JStr("x")]) => ret[t].value = JBool(FALSE)
         /\ resp[t] = EmptyDict => ret[t].value = JBool(FALSE)

\* the call under the probe raised and the probe returned false
C10_Witness ==
  \E t \in Threads :
    /\ pc[t] = "done"
    /\ fn[t] = "verify_api_connection"
    /\ outcomes[t] # <<>>
    /\ outcomes[t][Len(outcomes[t])] = OtherException
    /\ ret[t] = Returned(JBool(FALSE))

\* C11 as stated: every endpoint function returns a mapping and never raises,
\* whatever JSON payload the upstream answers with.
C11_EndpointsNeverRaise ==
  \A t \in Threads :
    (/\ pc[t] = "done"
     /\ fn[t] \in EndpointFns
     /\ \A i \in DOMAIN outcomes[t] : outcomes[t][i].kind # "Exception")
      => /\ ret[t].raised = ""
         /\ IsDict(ret[t].value)

\* the keys of one roster entry in get_team_players' documented shape
RosterKeys == {"id", "name", "country", "role", "battingStyle", "bowlingStyle"}

\* C18 as stated: get_team_players always returns a mapping with a "players"
\* list whose entries have exactly the six roster keys, also when the gate is
\* disabled, the fetch fails or the payload has no "players" list.
C18_RosterShape ==
  \A t \in Threads :
    (/\ pc[t] = "done"
     /\ fn[t] = "get_team_players"
     /\ \A i \in DOMAIN outcomes[t] : outcomes[t][i].kind # "Exception")
      => /\ ret[t].raised = ""
         /\ IsDict(ret[t].value)
         /\ "players" \in DOMAIN ret[t].value.val
         /\ IsList(ret[t].value.val["players"])
         /\ \A i \in DOMAIN ret[t].value.val["players"].val :
              LET e == ret[t].value.val["players"].val[i] IN
              IsDict(e) /\ DOMAIN e.val = RosterKeys

\* ---------------------------------------------------------- match extraction
\* the page has extracted the matches of its payload
Extracted == page_fn = "extract_matches_from_response"

\* the list extraction returned
Matches == page_out.value.val

\* where a well-formed payload of the given shape holds a match
Paths(shape) ==
  {<<i, j, k>> \in (0 .. 2) \X (0 .. MaxLen) \X (0 .. MaxLen) :
     i \in DOMAIN shape /\ j \in DOMAIN shape[i] /\ k \in 1 .. shape[i][j]}

\* path p comes before path q depth-first: type first, then series, then match
Before(p, q) ==
  \/ p[1] < q[1]
  \/ p[1] = q[1] /\ p[2] < q[2]
  \/ p[1] = q[1] /\ p[2] = q[2] /\ p[3] < q[3]

\* the positions of the output that hold the matchInfo of path p
Positions(p) == {n \in DOMAIN Matches : Matches[n] = InfoOf(p[1], p[2], p[3])}

\* C12: from a well-formed payload extraction returns the matchInfo of every
\* match exactly once and nothing else, in depth-first order (type, then
\* series, then match); the India v Australia scenario yields exactly one
\* record, whose team1.teamName is "India".
C12_DepthFirstOnce ==
  (Extracted /\ page_case.site \in {"", "scenario"}) =>
    /\ page_out.log = <<>>
    /\ page_case = Scenario =>
         /\ Len(Matches) = 1
         /\ Matches[1].val["team1"].val["teamName"] = JStr("India")
    /\ page_case # Scenario =>
         LET ps == Paths(page_case.shape) IN
         /\ \A p \in ps : Cardinality(Positions(p)) = 1
         /\ \A n \in DOMAIN Matches : \E p \in ps : n \in Positions(p)
         /\ \A p, q \in ps : \A n \in Positions(p), m \in Positions(q) :
              Before(p, q) => n < m

\* a well-formed payload of two match types, four series and eight matches
\* has been extracted
C12_Witness ==
  /\ Extracted
  /\ page_case = Sound(Uniform(2, 2, 2))
  /\ Len(Matches) = 8

\* the match at path p lies in the branch that c's defect cuts off
Under(c, p) ==
  /\ c.site \in DOMAIN SiteDepth
  /\ SubSeq(<<c.i, c.j, c.k>>, 1, SiteDepth[c.site]) = SubSeq(p, 1, SiteDepth[c.site])

\* the matches of the branches that c's defect leaves alone
Remaining(c) == {p \in Paths(c.shape) : ~Under(c, p)}

\* extraction returned the matches of the other branches: each once, nothing
\* else, in their order
OthersReturned ==
  /\ \A p \in Remaining(page_case) : Cardinality(Positions(p)) = 1
  /\ \A n \in DOMAIN Matches : \E p \in Remaining(page_case) : n \in Positions(p)
  /\ \A p, q \in Remaining(page_case) : \A n \in Positions(p), m \in Positions(q) :
       Before(p, q) => n < m

\* C13: a key missing at any level (typeMatches, seriesMatches,
\* seriesAdWrapper, matches, matchInfo) leaves out that branch only, without an
\* error, and the matches of the other branches are returned; the result is
\* [] without typeMatches, for typeMatches: [] and when every matches list is
\* empty.
C13_MissingKeySkipsBranch ==
  /\ (Extracted /\ page_case.bad = NoKey) => (page_out.log = <<>> /\ OthersReturned)
  /\ (Extracted /\ page_case.bad = NoKey /\ page_case.site = "typeMatches") =>
       page_out = Gives(JList(<<>>), <<>>)
  /\ (Extracted /\ page_case.site = "" /\ Paths(page_case.shape) = {}) =>
       page_out = Gives(JList(<<>>), <<>>)

\* a payload of two types, four series and eight matches whose first series
\* entry lacks seriesAdWrapper has been extracted: six matches are returned
C13_Witness ==
  /\ Extracted
  /\ page_case = [Sound(Uniform(2, 2, 2)) EXCEPT
                    !.site = "seriesAdWrapper", !.i = 1, !.j = 1, !.bad = NoKey]
  /\ Len(Matches) = 6

\* C14 as stated: a value of the wrong type where a nested container is
\* expected contributes nothing, and the matches of the other branches of the
\* payload are returned.
C14_MalformedSkipsBranch ==
  (Extracted /\ page_case.bad \in BadList \cup BadDict) => OthersReturned

\* ------------------------------------------------------------- both normalizers
\* C15: neither normalizer raises: whatever value it is given, each returns a
\* list (possibly empty).
C15_NormalizersNeverRaise ==
  page_fn \in {"extract_matches_from_response", "extract_player_stats_from_trending"} =>
    /\ ~page_out.raised
    /\ IsList(page_out.value)

\* len(None) raised inside the player normalizer, which logged it and
\* returned []
C15_Witness ==
  /\ page_fn = "extract_player_stats_from_trending"
  /\ page_in = JDict([players |-> JNone])
  /\ page_out.log = <<"error", "st.error">>
  /\ page_out.value = JList(<<>>)

\* ------------------------------------------------- player-record normalization
\* the page has normalized its raw player list
Normalized == page_fn = "extract_player_stats_from_trending"

\* the records normalization returned
Records == page_out.value.val

\* the name upstream gave the player of entry e
UpstreamName(e) == IF "name" \in DOMAIN e.val THEN e.val["name"] ELSE e.val["playerName"]

\* C16 as stated: normalization returns exactly one record per mapping element
\* of the raw player list, in input order; elements that are no mapping are
\* skipped without error.
C16_OneRecordPerMapping ==
  (Normalized /\ page_case.family = "list") =>
    LET mappings == SelectSeq(page_in.val, IsDict) IN
    /\ page_out.log = <<>>
    /\ Len(Records) = Len(mappings)
    /\ \A n \in DOMAIN Records : Records[n].val["name"] = UpstreamName(mappings[n])

\* the declared keys of a normalized player record
RecordKeys ==
  {"name", "team", "country", "role", "runs", "balls_faced", "fours", "sixes",
   "strike_rate", "highest_score", "wickets", "overs_bowled", "runs_conceded",
   "economy_rate", "best_figures", "matches", "average", "format", "recent_form",
   "trending_score", "rank"}

\* the declared keys of a player profile
ProfileKeys == {"id", "name", "role", "battingStyle", "bowlingStyle", "intlTeam", "raw"}

\* C17: every normalized player record and every profile get_player_info
\* returns has its full declared key set, whatever the upstream payload ({}
\* included): a field missing upstream gets a default and is never left out.
C17_NoKeyOmitted ==
  /\ Normalized =>
       \A n \in DOMAIN Records :
         IsDict(Records[n]) /\ DOMAIN Records[n].val = RecordKeys
  /\ page_fn = "get_player_info" =>
       IsDict(page_out.value) /\ DOMAIN page_out.value.val = ProfileKeys

\* an entry with a name and a team only has been normalized: its record has
\* the defaults for the rest
C17_Witness ==
  /\ Normalized
  /\ page_in = JList(<<PlayerA>>)
  /\ Len(Records) = 1
  /\ Records[1].val["runs"] = JInt(0)
  /\ Records[1].val["best_figures"] = JStr("N/A")
  /\ Records[1].val["role"] = JStr("Unknown")

\* the distance between two integers
Dist(a, b) == IF a > b THEN a - b ELSE b - a

\* v is a number above zero
Positive(v) == v.type \in {"int", "float"} /\ v.val > 0

\* v is, in hundredths, a nearest neighbour of the quotient num / den
NearestTo(v, num, den) == v.type = "float" /\ 2 * Dist(v.val * den, num) <= den

\* C19: with no strike rate supplied and runs and balls faced both positive,
\* strike_rate is runs / balls_faced * 100 rounded to two decimals (runs 50,
\* balls 25: 200.0); a supplied strike rate that is not zero is kept as it is.
C19_StrikeRateDerived ==
  (Normalized /\ page_case.family = "batting") =>
    LET runs == page_case.x
        balls == page_case.y
        supplied == page_case.z
        rate == Records[1].val["strike_rate"]
    IN /\ Len(Records) = 1
       /\ (supplied = NoKey /\ Positive(runs) /\ Positive(balls)) =>
            NearestTo(rate, 10000 * Hundredths(runs), Hundredths(balls))
       /\ (supplied = NoKey /\ runs = JInt(50) /\ balls = JInt(25)) => rate = JFloat(20000)
       /\ (supplied # NoKey /\ Hundredths(supplied) # 0) => rate = supplied

\* runs 50 and balls 25 under stats.batting, no strike rate: 200.0
C19_Witness ==
  /\ Normalized
  /\ page_case.family = "batting" /\ page_case.place = "stats"
  /\ page_case.x = JInt(50) /\ page_case.y = JInt(25) /\ page_case.z = NoKey
  /\ Records[1].val["strike_rate"] = JFloat(20000)

\* C20: with no economy rate supplied and overs bowled and runs conceded both
\* positive, economy_rate is runs_conceded / overs_bowled rounded to two
\* decimals (overs 10, runsConceded 30: 3.0); a supplied economy rate that is
\* not zero is kept as it is.
C20_EconomyRateDerived ==
  (Normalized /\ page_case.family = "bowling") =>
    LET overs == page_case.x
        conceded == page_case.y
        supplied == page_case.z
        rate == Records[1].val["economy_rate"]
    IN /\ Len(Records) = 1
       /\ (supplied = NoKey /\ Positive(overs) /\ Positive(conceded)) =>
            NearestTo(rate, 100 * Hundredths(conceded), Hundredths(overs))
       /\ (supplied = NoKey /\ overs = JInt(10) /\ conceded = JInt(30)) => rate = JFloat(300)
       /\ (supplied # NoKey /\ Hundredths(supplied) # 0) => rate = supplied

\* overs 10 and runsConceded 30 at the top level, no economy rate: 3.0
C20_Witness ==
  /\ Normalized
  /\ page_case.family = "bowling" /\ page_case.place = "top"
  /\ page_case.x = JInt(10) /\ page_case.y = JInt(30) /\ page_case.z = NoKey
  /\ Records[1].val["economy_rate"] = JFloat(300)

SleepsOf(t) ==
  {<<trace[t][i].n, outcomes[t][trace[t][i].n + 1].kind,
     outcomes[t][trace[t][i].n + 1].status, trace[t][j].n>> :
     <<i, j>> \in {x \in (DOMAIN trace[t]) \X (DOMAIN trace[t]) :
                    /\ x[1] < x[2]
                    /\ trace[t][x[1]].ev = "GET"
                    /\ trace[t][x[2]].ev = "sleep"
                    /\ \A k \in (x[1] + 1) .. (x[2] - 1) : trace[t][k].ev # "GET"}}

\* C22 as stated: the delay slept before a retry depends on the attempt index
\* only: two runs that sleep after the same attempt index sleep equally long.
C22_DelayByAttemptOnly ==
  \A t, u \in Runs : \A p \in SleepsOf(t), q \in SleepsOf(u) :
    p[1] = q[1] => p[4] = q[4]

\* C22 amended: the delay depends on the attempt index and the kind of failure
\* only: two runs that sleep after the same failure at the same attempt index
\* sleep equally long, 2^attempt after HTTP 429 and 1 after a network error.
C22_DelayByAttemptAndFailure ==
  /\ \A t, u \in Runs : \A p \in SleepsOf(t), q \in SleepsOf(u) :
       (p[1] = q[1] /\ p[2] = q[2] /\ p[3] = q[3]) => p[4] = q[4]
  /\ \A t \in Runs : \A p \in SleepsOf(t) :
       /\ p[3] = 429 => (p[1] = 0 /\ p[4] = 1) \/ (p[1] = 1 /\ p[4] = 2)
       /\ p[2] = "RequestException" => p[1] \in {0, 1} /\ p[4] = 1

\* two runs have slept after their second attempt, one after HTTP 429 and
\* one after a network error
C22_Witness ==
  \E t, u \in Runs :
    /\ <<1, "response", 429, 2>> \in SleepsOf(t)
    /\ <<1, "RequestException", 0, 1>> \in SleepsOf(u)

\* outcome o is a transient failure: HTTP 429, or a network error or timeout
Transient(o) == o = R429 \/ o.kind = "RequestException"

\* what a fetch returns for the parsed body b of a 200 answer
PayloadOf(b) == IF b.type = "dict" THEN b ELSE [type |-> "dict", val |-> [data |-> b]]

\* C23: a transient failure (HTTP 429 or a network error) on the first or
\* second attempt is followed by another attempt, and the call returns the
\* payload of the first HTTP 200 answer at once, with no attempt and no sleep
\* after it (429 then 200: two attempts and one sleep of 1).
C23_RetryUntilFirstOk ==
  \A t \in Threads :
    /\ \A i \in DOMAIN outcomes[t] :
         (i <= 2 /\ Transient(outcomes[t][i])) =>
           \/ Len(outcomes[t]) > i
           \/ pc[t] = "attempt" /\ attempt[t] = i
    /\ \A n \in DOMAIN outcomes[t] :
         (/\ Usable(outcomes[t][n])
          /\ \A i \in 1 .. (n - 1) : Transient(outcomes[t][i])) =>
           /\ pc[t] = "done"
           /\ Len(outcomes[t]) = n
           /\ resp[t] = PayloadOf(outcomes[t][n].body)
           /\ Len(Gets(t)) = n
           /\ NetTrace(t)[Len(NetTrace(t))] = EvGet(n - 1)
    /\ (Len(outcomes[t]) = 2 /\ outcomes[t][1] = R429 /\ Usable(outcomes[t][2])) =>
         NetTrace(t) = <<EvGet(0), EvSleep(1), EvGet(1)>>

\* a call was rate limited, then timed out, then got a 200 answer on its third
\* attempt and returned its payload
C23_Witness ==
  \E t \in Threads :
    /\ pc[t] = "done"
    /\ Len(outcomes[t]) = 3
    /\ outcomes[t][1] = R429
    /\ outcomes[t][2] = RequestException
    /\ outcomes[t][3] = Response(StatusOK, JDict([typeMatches |-> JList(<<>>)]))
    /\ resp[t] = JDict([typeMatches |-> JList(<<>>)])
    /\ NetTrace(t) = <<EvGet(0), EvSleep(1), EvGet(1), EvSleep(1), EvGet(2)>>

\* C24: after a network-level error on the first or second attempt the fetch
\* sleeps exactly 1 and then retries; after a network-level error on the third
\* attempt it does not sleep and returns {}.
C24_NetworkErrorWait ==
  \A t \in Threads :
    LET net == NetTrace(t) IN
    \A p \in DOMAIN net :
      (net[p].ev = "GET" /\ outcomes[t][net[p].n + 1].kind = "RequestException") =>
        IF net[p].n < 2
          THEN /\ p + 1 \in DOMAIN net
               /\ net[p + 1] = EvSleep(1)
               /\ IF p + 2 \in DOMAIN net
                    THEN net[p + 2] = EvGet(net[p].n + 1)
                    ELSE pc[t] = "attempt" /\ attempt[t] = net[p].n + 1
          ELSE /\ p = Len(net)
               /\ pc[t] = "done"
               /\ resp[t] = EmptyDict

\* three attempts of one call ended in a network error: two sleeps of 1, none
\* after the third, {} returned
C24_Witness ==
  \E t \in Threads :
    /\ pc[t] = "done"
    /\ outcomes[t] = <<RequestException, RequestException, RequestException>>
    /\ NetTrace(t) = <<EvGet(0), EvSleep(1), EvGet(1), EvSleep(1), EvGet(2)>>
    /\ resp[t] = EmptyDict
\* the run that just ended was a run of the CRUD page
CrudRan == run # Unset /\ run.kind # "query"

\* the events of the last run that are the word w
Count(w) == Cardinality({i \in DOMAIN run.events : run.events[i] = w})

\* C25: the SQL Analytics query runs against the database the CRUD page writes
\* to, whatever DATABASE_URL is: every player committed by the CRUD page is in
\* the result of a following query over the players table.
C25_QuerySeesCommitted ==
  (run # Unset /\ run.kind = "query" /\ DOMAIN Players # {})
    => /\ run.result.error = ""
       /\ \A id \in DOMAIN Players :
            /\ id \in DOMAIN run.result.df.val
            /\ run.result.df.val[id] = Players[id]

\* C26: after any sequence of Create, Save Changes and Confirm Delete from an
\* empty table, every stored player has a non-empty name, country and role.
C26_StarredFieldsNonEmpty ==
  \A id \in DOMAIN Players :
    /\ Players[id].name # ""
    /\ Players[id].country # ""
    /\ Players[id].role # ""

\* C27: every database session opened during one run of the CRUD page is
\* closed before that run ends.
C27_SessionsClosed ==
  CrudRan => Count("open") = Count("close")

\* the last run was a Confirm Delete whose statements succeeded
Deleted == run # Unset /\ run.kind = "delete" /\ Count("st.error") = 0

\* C28: delete_players(ids) returns the number of distinct listed ids that
\* named an existing player; afterwards no player with a listed id exists,
\* every player whose id is not listed is unchanged, and a commit is issued
\* only when at least one row was deleted.
C28_DeleteCountsDistinctExisting ==
  [][Deleted' =>
       /\ run'.count = Cardinality(run'.ids \cap DOMAIN Players)
       /\ run'.ids \cap DOMAIN Players' = {}
       /\ DOMAIN Players' = DOMAIN Players \ run'.ids
       /\ \A id \in DOMAIN Players \ run'.ids : Players'[id] = Players[id]
       /\ Count("commit")' > 0 => run'.count > 0]_vars

\* a delete given the same existing id twice, counted once and committed
C28_Witness ==
  /\ Deleted
  /\ run.n > Cardinality(run.ids)
  /\ run.count = 1
  /\ Count("commit") = 1

\* the sidebar filters were left as they start: everything offered is selected
Defaults ==
  /\ page_view # Unset
  /\ page_view.selected_countries = page_view.countries
  /\ page_view.selected_roles = page_view.roles
  /\ page_view.selected_formats = page_view.formats

\* C29: with all sidebar filters at their defaults the filtered player set is
\* the full set of normalized players.
C29_DefaultsShowAll ==
  Defaults => page_view.filtered_data = page_out.value.val

====
